---- MODULE Spec2Model ----
(***************************************************************************)
(* N-body integrator of src/src/main.rs (parallel Force Engine) and        *)
(* src/src/main2.rs (sequential Force Engine).                             *)
(*                                                                         *)
(* f64 values are modelled in exact arithmetic as fractions <<n, d>> in    *)
(* lowest terms with d >= 0.  d = 0 encodes the non-finite f64 values:     *)
(* <<1,0>> = +inf, <<-1,0>> = -inf, <<0,0>> = NaN.  sqrt is exact on the   *)
(* inputs the specifications draw (all distances and speeds are rational). *)
(* Vectors Vec<f64> of length 3 and the Vec<Star> are functions on 0..2    *)
(* and 0..(len-1), so that indices are those of the source.                *)
(***************************************************************************)
EXTENDS Integers, Sequences, FiniteSets, TLC

\* ------------------------------------------------------------------ bounds
\* Largest worker count (THREAD_COUNT), besides the build's, of a run of main.
MaxThreads == 2
\* Largest worker count (THREAD_COUNT), besides the build's, of a Force Engine
\* invocation in SpecForce.
MaxForceThreads == 3
\* Largest number of input lines of a run of main.
MaxLines == 3
\* Largest number of bodies of a Force Engine snapshot in SpecForce.
MaxStars == 3

\* ------------------------------------------------------------ f64 (exact)
Abs(x) == IF x < 0 THEN -x ELSE x
Sgn(x) == IF x > 0 THEN 1 ELSE IF x < 0 THEN -1 ELSE 0

RECURSIVE GCD(_, _)
GCD(a, b) == IF b = 0 THEN a ELSE GCD(b, a % b)

\* The f64 with value n/d (lowest terms, positive denominator); x/0 is
\* +-inf and 0/0 is NaN, as in IEEE 754.
Frac(n, d) ==
    IF d = 0 THEN <<Sgn(n), 0>>
    ELSE LET g == GCD(Abs(n), Abs(d))
         IN  <<(Sgn(d) * n) \div g, Abs(d) \div g>>

F(n) == <<n, 1>>
Zero == F(0)
Half == Frac(1, 2)
IsFinite(a) == a[2] # 0

FNeg(a) == <<-a[1], a[2]>>

FAdd(a, b) ==
    IF a[2] = 0 \/ b[2] = 0
    THEN (IF a[2] = 0 /\ b[2] = 0
          THEN (IF a = b THEN a ELSE <<0, 0>>)
          ELSE IF a[2] = 0 THEN a ELSE b)
    ELSE LET g == GCD(a[2], b[2])
         IN  Frac(a[1] * (b[2] \div g) + b[1] * (a[2] \div g), (a[2] \div g) * b[2])

FSub(a, b) == FAdd(a, FNeg(b))

FMul(a, b) ==
    IF a[2] = 0 \/ b[2] = 0
    THEN <<Sgn(a[1]) * Sgn(b[1]), 0>>
    ELSE LET g1 == GCD(Abs(a[1]), b[2])
             g2 == GCD(Abs(b[1]), a[2])
         IN  Frac((a[1] \div g1) * (b[1] \div g2), (a[2] \div g2) * (b[2] \div g1))

FDiv(a, b) ==
    IF b[2] = 0
    THEN (IF a[2] = 0 \/ b[1] = 0 THEN <<0, 0>> ELSE Zero)
    ELSE IF a[2] = 0 THEN <<a[1] * (IF b[1] < 0 THEN -1 ELSE 1), 0>>
    ELSE IF b[1] = 0 THEN <<Sgn(a[1]), 0>>
    ELSE FMul(a, Frac(b[2], b[1]))

\* a < b: false when either is NaN; -inf is below and +inf above every other
\* value.
FLess(a, b) ==
    IF a = <<0, 0>> \/ b = <<0, 0>> THEN FALSE
    ELSE IF a[2] = 0 THEN a[1] < 0 /\ b # a
    ELSE IF b[2] = 0 THEN b[1] > 0
    ELSE a[1] * b[2] < b[1] * a[2]

\* Integer square root of a perfect square.
ISqrt(n) == CHOOSE q \in 0..n : q * q = n

\* f64::sqrt, exact: defined on fractions whose terms are perfect squares.
FSqrt(a) ==
    IF a[2] = 0 THEN (IF a[1] > 0 THEN a ELSE <<0, 0>>)
    ELSE IF a[1] < 0 THEN <<0, 0>>
    ELSE <<ISqrt(a[1]), ISqrt(a[2])>>

\* f64::powi
RECURSIVE FPowi(_, _)
FPowi(a, e) == IF e = 0 THEN F(1) ELSE FMul(a, FPowi(a, e - 1))

\* --------------------------------------------------------------- constants
\* static dt: f64 = 1e-3
dt == Frac(1, 1000)
\* let tend: f64 = 0.1
tend == Frac(1, 10)

\* static THREAD_COUNT: usize = 8
StaticThreadCount == 8
\* The worker counts explored: the build's, and the smaller ones up to max.
ThreadCounts(max) == (1..max) \cup {StaticThreadCount}

\* The indices of a vector of three components, 0..3 in the source.
Axes == 0..2
\* vec![0.0; 3]
Vec3Zero == [i \in Axes |-> Zero]

\* s.len()
StarCount(s) == Cardinality(DOMAIN s)

\* Star { m, r, v, a: vec![0.0; 3], a0: vec![0.0; 3] }
NewStar(m, r, v) == [m |-> m, r |-> r, v |-> v, a |-> Vec3Zero, a0 |-> Vec3Zero]

\* s.push(star)
Push(s, star) ==
    [i \in 0..StarCount(s) |-> IF i < StarCount(s) THEN s[i] ELSE star]

NoStars == [i \in {} |-> NewStar(Zero, Vec3Zero, Vec3Zero)]

\* --------------------------------------------------------- Force Engine
\* let thread_start = sc.len() / THREAD_COUNT * thread_index;
thread_start_shared(n, W, thread_index) == 0
thread_start(n, W, thread_index) == (n \div W) * thread_index

\* let thread_end = sc.len() / THREAD_COUNT * (thread_index + 1);
thread_end_exclusive(n, W, thread_index) == (n \div W) * (thread_index + 1) - 1
thread_end(n, W, thread_index) == (n \div W) * (thread_index + 1)

\* for sj in (si + 1)..sc.len(): the first inner index.
InnerStart_self(si) == si
InnerStart(si) == si + 1

\* for i in 1..3: the components the pairwise update and the integrator
\* loops run over.
LoopAxes == 1..2

\* The outer indices si the loop of worker thread_index visits.
WorkerOuter(n, W, thread_index) ==
    thread_start(n, W, thread_index)..(thread_end(n, W, thread_index) - 1)

\* The pairs (si, sj) the loops of worker thread_index visit.
WorkerPairs(n, W, thread_index) ==
    { p \in WorkerOuter(n, W, thread_index) \X (0..(n - 1)) : InnerStart(p[1]) <= p[2] }

\* rij[i] = sc[si].r[i] - sc[sj].r[i], for i in 0..3
Rij(sc, si, sj) == [i \in Axes |-> FSub(sc[si].r[i], sc[sj].r[i])]

\* let RdotR = (rij[0]*rij[0] + rij[1]*rij[1] + rij[2]*rij[2]).sqrt();
RdotR(rij) ==
    FSqrt(FAdd(FAdd(FMul(rij[0], rij[0]), FMul(rij[1], rij[1])), FMul(rij[2], rij[2])))

\* let apre = 1.0/(RdotR.powi(3));
Apre(rij) == FDiv(F(1), FPowi(RdotR(rij), 3))

\* adiff[sj][i] += sc[si].m*apre*rij[i];
ReactionTerm_negated(m, apre, x) == FNeg(FMul(FMul(m, apre), x))
ReactionTerm(m, apre, x) == FMul(FMul(m, apre), x)

\* The body of the inner loop for the pair (si, sj):
\*   adiff[si][i] -= sc[sj].m*apre*rij[i]; adiff[sj][i] += sc[si].m*apre*rij[i];
PairUpdate(sc, si, sj, adiff) ==
    LET rij == Rij(sc, si, sj)
        apre == Apre(rij)
    IN  [b \in DOMAIN adiff |->
          [i \in Axes |->
             IF i \notin LoopAxes THEN adiff[b][i]
             ELSE IF b = si /\ b = sj
                  THEN FAdd(FSub(adiff[b][i], FMul(FMul(sc[sj].m, apre), rij[i])),
                            ReactionTerm(sc[si].m, apre, rij[i]))
             ELSE IF b = si
                  THEN FSub(adiff[b][i], FMul(FMul(sc[sj].m, apre), rij[i]))
             ELSE IF b = sj
                  THEN FAdd(adiff[b][i], ReactionTerm(sc[si].m, apre, rij[i]))
             ELSE adiff[b][i]]]

\* for sj in (si + 1)..sc.len() { ... }
RECURSIVE InnerLoop(_, _, _, _)
InnerLoop(sc, si, sj, adiff) ==
    IF sj >= StarCount(sc) THEN adiff
    ELSE InnerLoop(sc, si, sj + 1, PairUpdate(sc, si, sj, adiff))

\* for si in thread_start..thread_end { ... }
RECURSIVE OuterLoop(_, _, _, _)
OuterLoop(sc, si, end, adiff) ==
    IF si >= end THEN adiff
    ELSE OuterLoop(sc, si + 1, end, InnerLoop(sc, si, InnerStart(si), adiff))

\* The buffer one worker sends: vec![vec![0.0; 3]; sc.len()] after its loops.
WorkerAdiff(sc, W, thread_index) ==
    OuterLoop(sc, thread_start(StarCount(sc), W, thread_index),
              thread_end(StarCount(sc), W, thread_index),
              [b \in DOMAIN sc |-> Vec3Zero])

\* for si in 0..s.len() { s[si].a = vec![0.0; 3]; }
ResetAcceleration(s) == [b \in DOMAIN s |-> [s[b] EXCEPT !.a = Vec3Zero]]

\* for si in 0..s.len() { for i in 0..3 { s[si].a[i] += ax[si][i]; } }
AddBuffer_overwrite(s, ax) ==
    [b \in DOMAIN s |-> [s[b] EXCEPT !.a = [i \in Axes |-> ax[b][i]]]]
AddBuffer(s, ax) ==
    [b \in DOMAIN s |-> [s[b] EXCEPT !.a = [i \in Axes |-> FAdd(s[b].a[i], ax[b][i])]]]

\* ------------------------------------- acceleration of main2.rs (sequential)
\* for i in 1..3: the components the pairwise update of main2.rs runs over.
SeqLoopAxes == 1..2

\* for i in 0..3 { rij[i] = s[si].r[i] - s[sj].r[i]; }
SeqRij(s, si, sj) == [i \in Axes |-> FSub(s[si].r[i], s[sj].r[i])]

\* let RdotR: f64 = (rij[0]*rij[0] + rij[1]*rij[1] + rij[2]*rij[2]).sqrt();
SeqRdotR(rij) ==
    FSqrt(FAdd(FAdd(FMul(rij[0], rij[0]), FMul(rij[1], rij[1])), FMul(rij[2], rij[2])))

\* let apre: f64 = 1.0/(RdotR.powi(3));
SeqApre(rij) == FDiv(F(1), FPowi(SeqRdotR(rij), 3))

\* s[si].a[i] -= s[sj].m*apre*rij[i]; s[sj].a[i] += s[si].m*apre*rij[i];
\* for the pair (si, sj), si < sj, written into the bodies themselves.
SeqPairUpdate(s, si, sj) ==
    LET rij == SeqRij(s, si, sj)
        apre == SeqApre(rij)
    IN  [b \in DOMAIN s |->
          [s[b] EXCEPT !.a =
             [i \in Axes |->
                IF i \notin SeqLoopAxes THEN s[b].a[i]
                ELSE IF b = si THEN FSub(s[b].a[i], FMul(FMul(s[sj].m, apre), rij[i]))
                ELSE IF b = sj THEN FAdd(s[b].a[i], FMul(FMul(s[si].m, apre), rij[i]))
                ELSE s[b].a[i]]]]

\* for sj in (si + 1)..s.len() { ... }
RECURSIVE SeqInnerLoop(_, _, _)
SeqInnerLoop(s, si, sj) ==
    IF sj >= StarCount(s) THEN s
    ELSE SeqInnerLoop(SeqPairUpdate(s, si, sj), si, sj + 1)

\* for si in 0..s.len() { ... }
RECURSIVE SeqOuterLoop(_, _)
SeqOuterLoop(s, si) ==
    IF si >= StarCount(s) THEN s
    ELSE SeqOuterLoop(SeqInnerLoop(s, si, si + 1), si + 1)

\* fn acceleration(s: &mut Vec<Star>) of main2.rs: the accelerations are
\* zeroed, then every pair is visited in one thread.
SeqAcceleration(s) ==
    SeqOuterLoop([b \in DOMAIN s |-> [s[b] EXCEPT !.a = Vec3Zero]], 0)

\* ---------------------------------------------------------- Integrator
\* star.a0[i] = star.a[i]; star.r[i] += dt*star.v[i] + 0.5*dt*dt*star.a0[i];
updatePositions(s) ==
    [b \in DOMAIN s |->
       [s[b] EXCEPT
          !.a0 = [i \in Axes |-> IF i \in LoopAxes THEN s[b].a[i] ELSE s[b].a0[i]],
          !.r = [i \in Axes |->
                   IF i \in LoopAxes
                   THEN FAdd(s[b].r[i],
                             FAdd(FMul(dt, s[b].v[i]),
                                  FMul(FMul(FMul(Half, dt), dt), s[b].a[i])))
                   ELSE s[b].r[i]]]]

\* star.v[i] += 0.5*dt*(star.a0[i] + star.a[i]); star.a0[i] = star.a[i];
updateVelocities(s) ==
    [b \in DOMAIN s |->
       [s[b] EXCEPT
          !.v = [i \in Axes |->
                   IF i \in LoopAxes
                   THEN FAdd(s[b].v[i],
                             FMul(FMul(Half, dt), FAdd(s[b].a0[i], s[b].a[i])))
                   ELSE s[b].v[i]],
          !.a0 = [i \in Axes |-> IF i \in LoopAxes THEN s[b].a[i] ELSE s[b].a0[i]]]]

\* ------------------------------------------------------- Energy Monitor
\* E[1] += 0.5*star.m*((v[0].powi(2) + v[1].powi(2) + v[2].powi(2)).sqrt());
KineticTerm(star) ==
    FMul(FMul(Half, star.m),
         FSqrt(FAdd(FAdd(FPowi(star.v[0], 2), FPowi(star.v[1], 2)), FPowi(star.v[2], 2))))

RECURSIVE KineticLoop(_, _, _)
KineticLoop(s, b, e1) ==
    IF b >= StarCount(s) THEN e1
    ELSE KineticLoop(s, b + 1, FAdd(e1, KineticTerm(s[b])))

\* rij = 0.0; for i in 0..3 { rij += (s[si].r[i] - s[sj].r[i]).powi(2); }
DistSq(s, si, sj) ==
    FAdd(FAdd(FAdd(Zero, FPowi(FSub(s[si].r[0], s[sj].r[0]), 2)),
              FPowi(FSub(s[si].r[1], s[sj].r[1]), 2)),
         FPowi(FSub(s[si].r[2], s[sj].r[2]), 2))

\* for sj in (si + 1)..s.len(): the first inner index of the potential loop.
PotentialStart(si) == si + 1

\* E[2] -= s[si].m*s[sj].m/(rij.sqrt());
RECURSIVE PotentialInner(_, _, _, _)
PotentialInner(s, si, sj, e2) ==
    IF sj >= StarCount(s) THEN e2
    ELSE PotentialInner(s, si, sj + 1,
             FSub(e2, FDiv(FMul(s[si].m, s[sj].m), FSqrt(DistSq(s, si, sj)))))

RECURSIVE PotentialLoop(_, _, _)
PotentialLoop(s, si, e2) ==
    IF si >= StarCount(s) THEN e2
    ELSE PotentialLoop(s, si + 1, PotentialInner(s, si, PotentialStart(si), e2))

\* fn energies(tos: &Vec<Star>) -> Vec<f64>: E[0] total, E[1] kinetic,
\* E[2] potential.
energies(s) ==
    LET e1 == KineticLoop(s, 0, Zero)
        e2 == PotentialLoop(s, 0, Zero)
    IN  [i \in Axes |-> IF i = 0 THEN FAdd(e1, e2) ELSE IF i = 1 THEN e1 ELSE e2]

\* ------------------------------------------------------------ Input
\* The tokens that num.parse::<f64>() accepts, among those the inputs use.
NumericTokens == {"0", "1", "2", "3", "4"}

DecimalValue(tok) ==
    CASE tok = "0" -> 0 [] tok = "1" -> 1 [] tok = "2" -> 2
      [] tok = "3" -> 3 [] tok = "4" -> 4

\* num.parse(): Ok(value) or Err.
ParseF64_lenient(tok) ==
    IF tok \in NumericTokens
    THEN [ok |-> TRUE, val |-> F(DecimalValue(tok))]
    ELSE [ok |-> TRUE, val |-> Zero]
ParseF64(tok) ==
    IF tok \in NumericTokens
    THEN [ok |-> TRUE, val |-> F(DecimalValue(tok))]
    ELSE [ok |-> FALSE, val |-> Zero]

\* for num in var { if num == "" { continue; }
\*                  arr.push(num.parse().expect("Invalid input")); }
RECURSIVE ParseTokens(_, _, _)
ParseTokens(var, i, arr) ==
    IF i > Len(var) THEN [ok |-> TRUE, arr |-> arr]
    ELSE IF var[i] = "" THEN ParseTokens(var, i + 1, arr)
    ELSE LET p == ParseF64(var[i])
         IN  IF p.ok THEN ParseTokens(var, i + 1, Append(arr, p.val))
             ELSE [ok |-> FALSE, arr |-> arr]

\* The number of leading fields a record must have for arr[0], arr[1],
\* arr[2..5] and arr[5..8] to be in bounds.
FieldsRead == 8

\* dummy = arr[0]; m = arr[1]; r = arr[2..5]; v = arr[5..8] (arr is 1-based
\* here, so field i of the source is arr[i + 1]).
StarOfFields(arr) ==
    NewStar(arr[2], [i \in Axes |-> arr[3 + i]], [i \in Axes |-> arr[6 + i]])

\* A line of the input, split at " ": "ok" with the star it adds, "skip" for
\* the empty line, or "panic".
ReadLine(line) ==
    IF line = <<>> THEN [res |-> "skip", star |-> NewStar(Zero, Vec3Zero, Vec3Zero)]
    ELSE LET p == ParseTokens(line, 1, <<>>)
         IN  IF ~p.ok \/ Len(p.arr) < FieldsRead
             THEN [res |-> "panic", star |-> NewStar(Zero, Vec3Zero, Vec3Zero)]
             ELSE [res |-> "ok", star |-> StarOfFields(p.arr)]

\* Input records: id, m, r0 r1 r2, v0 v1 v2.  The well-formed ones lie on the
\* x axis at distinct places and share v1 and v2, so that a run stays exact.
LineA == <<"1", "1", "0", "0", "0", "0", "4", "0">>
LineB == <<"2", "2", "1", "0", "0", "3", "4", "0">>
LineC == <<"3", "1", "3", "0", "0", "0", "4", "0">>
\* two spaces between the first fields
LineSpaced == <<"4", "", "2", "4", "0", "0", "3", "4", "0">>
\* nine fields
LineLong == <<"4", "1", "2", "0", "0", "0", "4", "0", "1">>
\* seven fields
LineShort == <<"4", "1", "2", "0", "0", "0", "4">>
\* a non-numeric token
LineBadToken == <<"4", "1", "x", "0", "0", "0", "4", "0">>
\* only spaces
LineBlank == <<"", "">>
LineEmpty == <<>>

Lines ==
    <<LineA, LineEmpty, LineB, LineLong, LineC, LineSpaced,
      LineShort, LineBadToken, LineBlank>>

\* The inputs: the lines at up to MaxLines increasing places of Lines.
RECURSIVE Pick(_, _)
Pick(idx, i) ==
    IF i > Len(Lines) THEN <<>>
    ELSE IF i \in idx THEN <<Lines[i]>> \o Pick(idx, i + 1)
    ELSE Pick(idx, i + 1)

Inputs ==
    { Pick(idx, 1) : idx \in { x \in SUBSET (1..Len(Lines)) : Cardinality(x) <= MaxLines } }

\* The inputs of the runs with the eight workers of the build.
BuildInputs == {<<LineA>>, <<LineA, LineB>>, <<LineA, LineBadToken>>}

\* ------------------------------------------------------------ State
VARIABLES
    input,         \* the lines of stdin
    lineno,        \* the next line of input to read (1-based)
    THREAD_COUNT,  \* static THREAD_COUNT
    s,             \* main's Vec<Star>
    pc,            \* where the main thread is
    ret,           \* where acceleration returns to
    t, k,          \* main's t and k
    E0,            \* main's E0
    output,        \* what println! wrote, in order
    thread_index,  \* acceleration: the spawn loop's index
    iy,            \* acceleration: the receive loop's index
    chan,          \* the mpsc channel's queue
    calls,         \* the number of calls of acceleration so far (history)
    wstate,        \* per worker: "unspawned", "running", "sent" (its thread may
                   \* have ended or not), "ended" (where tracked), "panicked"
    sc,            \* per worker: its clone of s
    evaluated,     \* per worker: the outer indices and pairs its loops visited (history)
    sendOrder,     \* the buffers that were sent, in order (history)
    recvOrder,     \* the buffers that were added, in order (history)
    prev,          \* the previous invocation's result and order (history)
    detached,      \* the number of threads spawned by earlier invocations, which
                   \* nothing joined, that are not known to have terminated
    eframe         \* energies' frame: where the call is, its locals E, rij and
                   \* loop indices as the last call left them, and (history) the
                   \* number of moves of the bodies and the values returned

vars == <<input, lineno, THREAD_COUNT, s, pc, ret, t, k, E0, output,
          thread_index, iy, chan, calls, wstate, sc, evaluated, sendOrder, recvOrder,
          prev, detached, eframe>>

mainVars == <<input, lineno, t, k, E0, output>>
accVars == <<thread_index, iy, chan, calls, wstate, sc, evaluated, sendOrder, recvOrder>>

Workers == 0..(THREAD_COUNT - 1)

NoPrev == [valid |-> FALSE, acc |-> <<>>, order |-> <<>>]

NoVisits == [outer |-> {}, pairs |-> {}]

\* energies has not been called.
NoCall == [pc |-> "idle", E |-> Vec3Zero, rij |-> Zero, star |-> 0, si |-> 0, sj |-> 0,
           moves |-> 0, seen |-> <<>>]

InitCommon ==
    /\ t = Zero
    /\ k = 0
    /\ E0 = Vec3Zero
    /\ output = <<>>
    /\ thread_index = 0
    /\ iy = 0
    /\ chan = <<>>
    /\ calls = 0
    /\ wstate = [w \in Workers |-> "unspawned"]
    /\ sc = [w \in Workers |-> NoStars]
    /\ evaluated = [w \in Workers |-> NoVisits]
    /\ sendOrder = <<>>
    /\ recvOrder = <<>>
    /\ prev = NoPrev
    /\ detached = 0
    /\ eframe = NoCall

\* main, before it reads its first line.
Init ==
    /\ THREAD_COUNT \in ThreadCounts(MaxThreads)
    /\ input \in IF THREAD_COUNT = StaticThreadCount THEN BuildInputs ELSE Inputs
    /\ lineno = 1
    /\ s = NoStars
    /\ pc = "parse"
    /\ ret = "loop"
    /\ InitCommon

\* ------------------------------------------------------------ main
\* One iteration of "for line in lines".
ParseLine ==
    /\ pc = "parse"
    /\ lineno <= Len(input)
    /\ LET x == ReadLine(input[lineno])
       IN  /\ s' = IF x.res = "ok" THEN Push(s, x.star) ELSE s
           /\ pc' = IF x.res = "panic" THEN "fatal" ELSE "parse"
    /\ lineno' = lineno + 1
    /\ UNCHANGED <<input, THREAD_COUNT, ret, t, k, E0, output, accVars, prev, detached, eframe>>

\* let E0 = energies(&s); println!("Energies: ..."); acceleration(&mut s);
InitialReport ==
    /\ pc = "parse"
    /\ lineno > Len(input)
    /\ E0' = energies(s)
    /\ output' = Append(output, [kind |-> "energies", E |-> energies(s)])
    /\ pc' = "acc_enter"
    /\ ret' = "loop"
    /\ UNCHANGED <<input, lineno, THREAD_COUNT, s, t, k, accVars, prev, detached, eframe>>

\* while t < tend
LoopCondition_once(tt) == tt = Zero
LoopCondition(tt) == FLess(tt, tend)

\* while t < tend { updatePositions(&mut s); acceleration(&mut s); ...
StepPositions_stale ==
    /\ pc = "loop"
    /\ LoopCondition(t)
    /\ s' = updatePositions(s)
    /\ pc' = "velocities"
    /\ ret' = "velocities"
    /\ UNCHANGED <<mainVars, THREAD_COUNT, accVars, prev, detached, eframe>>
StepPositions ==
    /\ pc = "loop"
    /\ LoopCondition(t)
    /\ s' = updatePositions(s)
    /\ pc' = "acc_enter"
    /\ ret' = "velocities"
    /\ UNCHANGED <<mainVars, THREAD_COUNT, accVars, prev, detached, eframe>>

\* if k % 10 == 0
DiagDue_five(kk) == kk % 5 = 0
DiagDue(kk) == kk % 10 = 0

\* (E[0]-E0[0])/E0[0]
Drift(E, E00) == FDiv(FSub(E[0], E00[0]), E00[0])

\* ... updateVelocities(&mut s); t += dt; k += 1;
\*     if k % 10 == 0 { E = energies(&s); println!("t = ..."); } }
StepVelocities ==
    /\ pc = "velocities"
    /\ s' = updateVelocities(s)
    /\ t' = FAdd(t, dt)
    /\ k' = k + 1
    /\ output' = IF DiagDue(k')
                 THEN Append(output, [kind |-> "diag", t |-> t', E |-> energies(s'),
                                      dE |-> Drift(energies(s'), E0)])
                 ELSE output
    /\ pc' = "loop"
    /\ UNCHANGED <<input, lineno, THREAD_COUNT, ret, E0, accVars, prev, detached, eframe>>

\* The loop condition fails: main returns.
Finish ==
    /\ pc = "loop"
    /\ ~LoopCondition(t)
    /\ pc' = "done"
    /\ UNCHANGED <<mainVars, THREAD_COUNT, s, ret, accVars, prev, detached, eframe>>

\* ------------------------------------------------------------ acceleration
\* Entry: the accelerations are zeroed, handles and the channel are created.
AccelEnter ==
    /\ pc = "acc_enter"
    /\ s' = ResetAcceleration(s)
    /\ thread_index' = 0
    /\ iy' = 0
    /\ chan' = <<>>
    /\ calls' = calls + 1
    /\ detached' = detached + Cardinality({ w \in Workers : wstate[w] \in {"running", "sent"} })
    /\ wstate' = [w \in Workers |-> "unspawned"]
    /\ sc' = [w \in Workers |-> NoStars]
    /\ evaluated' = [w \in Workers |-> NoVisits]
    /\ sendOrder' = <<>>
    /\ recvOrder' = <<>>
    /\ pc' = "acc_spawn"
    /\ UNCHANGED <<mainVars, THREAD_COUNT, ret, prev, eframe>>

\* One iteration of "for thread_index in 0..THREAD_COUNT": tx.clone(),
\* s.clone(), thread::spawn.
Spawn ==
    /\ pc = "acc_spawn"
    /\ thread_index < THREAD_COUNT
    /\ sc' = [sc EXCEPT ![thread_index] = s]
    /\ wstate' = [wstate EXCEPT ![thread_index] = "running"]
    /\ thread_index' = thread_index + 1
    /\ pc' = IF thread_index + 1 = THREAD_COUNT THEN "acc_recv" ELSE "acc_spawn"
    /\ UNCHANGED <<mainVars, THREAD_COUNT, s, ret, iy, chan, calls, evaluated,
                   sendOrder, recvOrder, prev, detached, eframe>>

\* The closure of worker w: its loops, then tx.send(adiff.clone()).
WorkerSend_shared(w) ==
    /\ wstate[w] = "running"
    /\ s' = AddBuffer(s, WorkerAdiff(s, THREAD_COUNT, w))
    /\ chan' = Append(chan, [call |-> calls, adiff |-> [b \in DOMAIN s |-> Vec3Zero]])
    /\ evaluated' = [evaluated EXCEPT ![w] =
                        [outer |-> WorkerOuter(StarCount(s), THREAD_COUNT, w),
                         pairs |-> WorkerPairs(StarCount(s), THREAD_COUNT, w)]]
    /\ sendOrder' = Append(sendOrder, [b \in DOMAIN s |-> Vec3Zero])
    /\ wstate' = [wstate EXCEPT ![w] = "sent"]
    /\ UNCHANGED <<mainVars, THREAD_COUNT, pc, ret, thread_index, iy, calls, sc,
                   recvOrder, prev, detached, eframe>>
WorkerSend(w) ==
    /\ wstate[w] = "running"
    /\ chan' = Append(chan, [call |-> calls, adiff |-> WorkerAdiff(sc[w], THREAD_COUNT, w)])
    /\ evaluated' = [evaluated EXCEPT ![w] =
                        [outer |-> WorkerOuter(StarCount(sc[w]), THREAD_COUNT, w),
                         pairs |-> WorkerPairs(StarCount(sc[w]), THREAD_COUNT, w)]]
    /\ sendOrder' = Append(sendOrder, WorkerAdiff(sc[w], THREAD_COUNT, w))
    /\ wstate' = [wstate EXCEPT ![w] = "sent"]
    /\ UNCHANGED <<mainVars, THREAD_COUNT, s, pc, ret, thread_index, iy, calls, sc,
                   recvOrder, prev, detached, eframe>>

\* The number of Senders of the channel that are alive: acceleration's own tx, which
\* lives until acceleration returns, and the clone of every worker whose closure
\* has not ended.
LiveSenders ==
    (IF pc \in {"acc_spawn", "acc_recv"} THEN 1 ELSE 0)
        + Cardinality({ w \in Workers : wstate[w] \in {"running", "sent"} })

\* for iy in 0..THREAD_COUNT: the number of iterations of the receive loop.
RecvBound_short(W) == W - 1
RecvBound(W) == W

\* One iteration of "for iy in 0..THREAD_COUNT": rx.recv().expect("RIP")
\* blocks while the queue is empty and a Sender is alive, and fails when the
\* queue is empty and no Sender is alive.
Recv ==
    /\ pc = "acc_recv"
    /\ iy < RecvBound(THREAD_COUNT)
    /\ IF chan # <<>>
       THEN /\ s' = AddBuffer(s, Head(chan).adiff)
            /\ recvOrder' = Append(recvOrder, Head(chan).adiff)
            /\ chan' = Tail(chan)
            /\ iy' = iy + 1
            /\ pc' = pc
       ELSE /\ LiveSenders = 0
            /\ pc' = "fatal"
            /\ UNCHANGED <<s, recvOrder, chan, iy, eframe>>
    /\ UNCHANGED <<mainVars, THREAD_COUNT, ret, thread_index, calls, wstate, sc,
                   evaluated, sendOrder, prev, detached, eframe>>

\* The receive loop is over: acceleration returns to its caller.
AccelReturn ==
    /\ pc = "acc_recv"
    /\ iy = RecvBound(THREAD_COUNT)
    /\ pc' = ret
    /\ UNCHANGED <<mainVars, THREAD_COUNT, s, ret, accVars, prev, detached, eframe>>

Next ==
    \/ ParseLine
    \/ InitialReport
    \/ StepPositions
    \/ StepVelocities
    \/ Finish
    \/ AccelEnter
    \/ Spawn
    \/ \E w \in Workers : WorkerSend(w)
    \/ Recv
    \/ AccelReturn

Spec == Init /\ [][Next]_vars

\* ------------------------------------------------ a worker that fails
\* The closure of worker w panics before tx.send: its clone of tx is dropped
\* and nothing is sent.
WorkerPanic(w) ==
    /\ wstate[w] = "running"
    /\ wstate' = [wstate EXCEPT ![w] = "panicked"]
    /\ UNCHANGED <<mainVars, THREAD_COUNT, s, pc, ret, thread_index, iy, chan, calls,
                   sc, evaluated, sendOrder, recvOrder, prev, detached, eframe>>


\* ------------------------------------- the Force Engine on a snapshot
Point(x, y, z) == [i \in Axes |-> F(<<x, y, z>>[i + 1])]

\* Places whose mutual distances are rational: the corners of a 3 x 4
\* rectangle in the x-y plane and in the y-z plane, and the two places
\* (0,0,0) and (1,0,0).
RectXY == <<Point(0, 0, 0), Point(3, 0, 0), Point(0, 4, 0), Point(3, 4, 0)>>
RectYZ == <<Point(0, 0, 0), Point(0, 3, 0), Point(0, 0, 4), Point(0, 3, 4)>>
PairX == <<Point(0, 0, 0), Point(1, 0, 0)>>
Pools == {RectXY, RectYZ, PairX}

\* The places of pool at the increasing indices idx, as bodies 0, 1, ...
RECURSIVE Place(_, _, _, _, _)
Place(pool, idx, i, unit, acc) ==
    IF i > Len(pool) THEN acc
    ELSE IF i \in idx
    THEN Place(pool, idx, i + 1, unit,
               Push(acc, NewStar(IF unit THEN F(1) ELSE F(StarCount(acc) + 1),
                                 pool[i], Vec3Zero)))
    ELSE Place(pool, idx, i + 1, unit, acc)

\* Up to MaxStars bodies at distinct places of one pool, at rest, all of
\* mass 1 or of masses 1, 2, 3, ...
Snapshots ==
    { Place(pool, idx, 1, unit, NoStars) :
        pool \in Pools, unit \in BOOLEAN,
        idx \in { x \in SUBSET (1..4) : Cardinality(x) <= MaxStars } }

InitForce ==
    /\ input = <<>>
    /\ THREAD_COUNT \in ThreadCounts(MaxForceThreads)
    /\ lineno = 1
    /\ s \in Snapshots
    /\ pc = "acc_enter"
    /\ ret = "harness"
    /\ InitCommon

\* acceleration(&mut s) is called a second time on the bodies it returned,
\* whose places and masses are those of the first call.
Reinvoke ==
    /\ pc = "harness"
    /\ ~prev.valid
    /\ prev' = [valid |-> TRUE, acc |-> [b \in DOMAIN s |-> s[b].a], order |-> recvOrder]
    /\ pc' = "acc_enter"
    /\ UNCHANGED <<mainVars, THREAD_COUNT, s, ret, accVars, detached, eframe>>

NextForce ==
    \/ AccelEnter
    \/ Spawn
    \/ \E w \in Workers : WorkerSend(w)
    \/ Recv
    \/ AccelReturn
    \/ Reinvoke

SpecForce == InitForce /\ [][NextForce]_vars

\* Two bodies of masses 1 and 2 at opposite corners of the y-z rectangle.
TwoBodies == Place(RectYZ, {1, 4}, 1, FALSE, NoStars)

InitPair ==
    /\ input = <<>>
    /\ THREAD_COUNT \in ThreadCounts(MaxForceThreads)
    /\ lineno = 1
    /\ s = TwoBodies
    /\ pc = "acc_enter"
    /\ ret = "harness"
    /\ InitCommon

NextFault ==
    \/ NextForce
    \/ \E w \in Workers : WorkerPanic(w)

\* The Force Engine on two bodies, with workers that may fail.
SpecFault == InitPair /\ [][NextFault]_vars

\* ------------------------------------------- the lifetime of a worker
\* The closure of worker w has returned after tx.send: its thread terminates.
\* Nothing waits for this step: the JoinHandle pushed on handles is never
\* joined, and handles is dropped when acceleration returns.
WorkerExit(w) ==
    /\ wstate[w] = "sent"
    /\ wstate' = [wstate EXCEPT ![w] = "ended"]
    /\ UNCHANGED <<mainVars, THREAD_COUNT, s, pc, ret, thread_index, iy, chan, calls,
                   sc, evaluated, sendOrder, recvOrder, prev, detached, eframe>>

\* A thread of an earlier invocation terminates.
DetachedExit ==
    /\ detached > 0
    /\ detached' = detached - 1
    /\ UNCHANGED <<mainVars, THREAD_COUNT, s, pc, ret, accVars, prev, eframe>>

NextThreads ==
    \/ NextForce
    \/ \E w \in Workers : WorkerExit(w)
    \/ DetachedExit

\* The Force Engine on two bodies, with the termination of its threads.
SpecThreads == InitPair /\ [][NextThreads]_vars

\* ------------------------------------------------------ energies alone
\* The number of times energies is called on one Body Store.
MaxReports == 3
\* The number of times the bodies are moved between calls of energies.
MaxMoves == 1

\* Velocities whose norms are rational.
Velocities == <<Point(0, 0, 0), Point(3, 4, 0), Point(0, 0, 2)>>

\* The bodies of Snapshots, moving.
MovingSnapshots ==
    { [b \in DOMAIN snap |-> [snap[b] EXCEPT !.v = Velocities[((b + sh) % 3) + 1]]] :
        snap \in Snapshots, sh \in 0..2 }

InitEnergy ==
    /\ input = <<>>
    /\ THREAD_COUNT = StaticThreadCount
    /\ lineno = 1
    /\ s \in MovingSnapshots
    /\ pc = "measure"
    /\ ret = "measure"
    /\ InitCommon

\* fn energies(tos: &Vec<Star>) is entered: let ref s = *tos;
\* let mut E: Vec<f64> = vec![0.0; 3]; let mut rij: f64 = 0.0;
\* As if E were kept from one call to the next.
EnergiesEnter_keep ==
    /\ pc = "measure"
    /\ eframe.pc = "idle"
    /\ Len(output) < MaxReports
    /\ eframe' = [eframe EXCEPT !.pc = "kinetic", !.rij = Zero, !.star = 0]
    /\ UNCHANGED <<mainVars, THREAD_COUNT, s, pc, ret, accVars, prev, detached>>
EnergiesEnter ==
    /\ pc = "measure"
    /\ eframe.pc = "idle"
    /\ Len(output) < MaxReports
    /\ eframe' = [eframe EXCEPT !.pc = "kinetic", !.E = Vec3Zero, !.rij = Zero, !.star = 0]
    /\ UNCHANGED <<mainVars, THREAD_COUNT, s, pc, ret, accVars, prev, detached>>

\* for star in s { E[1] += 0.5*star.m*(...).sqrt(); }: one body, or the
\* end of the loop.
EnergiesKinetic ==
    /\ eframe.pc = "kinetic"
    /\ eframe' =
         IF eframe.star < StarCount(s)
         THEN [eframe EXCEPT !.E[1] = FAdd(@, KineticTerm(s[eframe.star])),
                             !.star = @ + 1]
         ELSE [eframe EXCEPT !.pc = "potential", !.si = 0, !.sj = PotentialStart(0)]
    /\ UNCHANGED <<mainVars, THREAD_COUNT, s, pc, ret, accVars, prev, detached>>

\* for si in 0..s.len() { for sj in (si + 1)..s.len() {
\*     rij = 0.0; for i in 0..3 { rij += ...; }
\*     E[2] -= s[si].m*s[sj].m/(rij.sqrt()); } }: one pair, the end of the
\* inner loop, or the end of the outer loop.
EnergiesPotential ==
    /\ eframe.pc = "potential"
    /\ eframe' =
         IF eframe.si >= StarCount(s)
         THEN [eframe EXCEPT !.pc = "sum"]
         ELSE IF eframe.sj >= StarCount(s)
         THEN [eframe EXCEPT !.si = @ + 1, !.sj = PotentialStart(eframe.si + 1)]
         ELSE [eframe EXCEPT
                 !.rij = DistSq(s, eframe.si, eframe.sj),
                 !.E[2] = FSub(@, FDiv(FMul(s[eframe.si].m, s[eframe.sj].m),
                                       FSqrt(DistSq(s, eframe.si, eframe.sj)))),
                 !.sj = @ + 1]
    /\ UNCHANGED <<mainVars, THREAD_COUNT, s, pc, ret, accVars, prev, detached>>

\* E[0] = E[1] + E[2]; return E; and the caller's println!.
EnergiesReturn ==
    /\ eframe.pc = "sum"
    /\ LET returned == [eframe.E EXCEPT ![0] = FAdd(eframe.E[1], eframe.E[2])]
       IN  /\ eframe' = [eframe EXCEPT
                           !.pc = "idle",
                           !.E = returned,
                           !.seen = Append(@, [at |-> eframe.moves, E |-> returned])]
           /\ output' = Append(output, [kind |-> "energies", E |-> returned])
    /\ UNCHANGED <<input, lineno, THREAD_COUNT, s, pc, ret, t, k, E0, accVars, prev, detached>>

\* The greatest q in lo..hi with q * q <= n, by bisection.
RECURSIVE FloorRoot(_, _, _)
FloorRoot(n, lo, hi) ==
    IF lo >= hi THEN lo
    ELSE LET mid == (lo + hi + 1) \div 2
         IN  IF mid <= n \div mid THEN FloorRoot(n, mid, hi)
             ELSE FloorRoot(n, lo, mid - 1)

\* n is the square of an integer.
IsSquare(n) == n = 0 \/ (n > 0 /\ FloorRoot(n, 1, n) * FloorRoot(n, 1, n) = n)

\* The distances between the bodies are rational, where FSqrt is exact.
ExactPlaces(bodies) ==
    \A si \in DOMAIN bodies : \A sj \in DOMAIN bodies :
        si < sj => /\ IsSquare(DistSq(bodies, si, sj)[1])
                   /\ IsSquare(DistSq(bodies, si, sj)[2])

\* updatePositions(&mut s) between two calls of energies, on bodies it
\* leaves at rational distances.
MoveBodies ==
    /\ pc = "measure"
    /\ eframe.pc = "idle"
    /\ eframe.moves < MaxMoves
    /\ ExactPlaces(updatePositions(s))
    /\ s' = updatePositions(s)
    /\ eframe' = [eframe EXCEPT !.moves = @ + 1]
    /\ UNCHANGED <<mainVars, THREAD_COUNT, pc, ret, accVars, prev, detached>>

NextEnergy ==
    \/ EnergiesEnter
    \/ EnergiesKinetic
    \/ EnergiesPotential
    \/ EnergiesReturn
    \/ MoveBodies

SpecEnergy == InitEnergy /\ [][NextEnergy]_vars

\* ------------------------------------------------------------ claims
N == StarCount(s)

\* All workers of the current invocation have sent and every buffer was added.
AllSummed == pc \in {"acc_recv", "harness"} /\ iy = THREAD_COUNT

\* The unordered pairs (i, j), i < j, of n bodies.
AllPairs(n) == { p \in (0..(n - 1)) \X (0..(n - 1)) : p[1] < p[2] }

EvaluatedBy(p) == { w \in Workers : p \in evaluated[w].pairs }
VisitedBy(i) == { w \in Workers : i \in evaluated[w].outer }

\* The outer indices below Covered are those of some worker's range.
Covered == THREAD_COUNT * (N \div THREAD_COUNT)

\* C1 (as stated): when a Force Engine invocation has summed all buffers,
\* every pair (i, j), i < j, was evaluated by exactly one worker, and every
\* outer index in [0, N) was visited by a worker, for every N and W.
C1_PartitionComplete ==
    AllSummed =>
        /\ \A p \in AllPairs(N) : Cardinality(EvaluatedBy(p)) = 1
        /\ \A i \in 0..(N - 1) : VisitedBy(i) # {}

\* C1 (amended): no pair is evaluated twice and nothing but a pair (i, j),
\* i < j, is evaluated; a pair is evaluated, by exactly one worker, exactly
\* when its outer index i is below W * floor(N / W), and the ranges cover
\* exactly the outer indices below W * floor(N / W), each once: all of
\* [0, N) exactly when W divides N.
C1_PartitionBelowCovered ==
    AllSummed =>
        /\ \A w \in Workers : evaluated[w].pairs \subseteq AllPairs(N)
        /\ \A p \in AllPairs(N) :
              Cardinality(EvaluatedBy(p)) = IF p[1] < Covered THEN 1 ELSE 0
        /\ \A i \in 0..(N - 1) :
              Cardinality(VisitedBy(i)) = IF i < Covered THEN 1 ELSE 0
        /\ (Covered = N) <=> (N % THREAD_COUNT = 0)

\* Three bodies and two workers: the ranges are [0,1) and [1,2), index 2 is
\* in no range, and all three pairs were evaluated.
C1_Witness ==
    /\ AllSummed
    /\ N = 3
    /\ THREAD_COUNT = 2
    /\ VisitedBy(2) = {}
    /\ \A p \in AllPairs(3) : EvaluatedBy(p) # {}

\* Newton's law: the sum over the other bodies j of
\* m_j * (r_j - r_i) / |r_j - r_i|^3, component i.
RECURSIVE NewtonSum(_, _, _, _)
NewtonSum(bodies, b, c, others) ==
    IF others = {} THEN Zero
    ELSE LET j == CHOOSE x \in others : TRUE
             d == [i \in Axes |-> FSub(bodies[j].r[i], bodies[b].r[i])]
             dist == FSqrt(FAdd(FAdd(FMul(d[0], d[0]), FMul(d[1], d[1])), FMul(d[2], d[2])))
         IN  FAdd(FDiv(FMul(bodies[j].m, d[c]), FMul(FMul(dist, dist), dist)),
                  NewtonSum(bodies, b, c, others \ {j}))

Newton(bodies, b, c) == NewtonSum(bodies, b, c, DOMAIN bodies \ {b})

\* C2: after a Force Engine invocation every body's acceleration is the
\* Newtonian sum over the other bodies, in each of the three components.
C2_NewtonianAcceleration ==
    pc = "harness" =>
        \A b \in DOMAIN s : \A c \in Axes : s[b].a[c] = Newton(s, b, c)

\* C3: once a worker has failed before sending, the invocation does not
\* return to the step, and the run can only come to rest in the fatal state:
\* short of it the Driver can take a step or a worker is still running.
C3_WorkerFailureIsFatal ==
    (\E w \in Workers : wstate[w] = "panicked") =>
        /\ pc # "harness"
        /\ \/ pc = "fatal"
           \/ ENABLED (AccelEnter \/ Spawn \/ Recv \/ AccelReturn \/ Reinvoke)
           \/ \E w \in Workers : wstate[w] = "running"

\* C4: the position half-step and the velocity step apply their rule to all
\* three components of every body.
C4_AllAxesUpdated ==
    [][/\ (pc = "loop" /\ pc' = "acc_enter") =>
            \A b \in DOMAIN s : \A c \in Axes :
               /\ s'[b].a0[c] = s[b].a[c]
               /\ s'[b].r[c] =
                     FAdd(s[b].r[c],
                          FAdd(FMul(dt, s[b].v[c]),
                               FMul(FMul(FMul(Half, dt), dt), s[b].a[c])))
       /\ (pc = "velocities" /\ pc' = "loop") =>
            \A b \in DOMAIN s : \A c \in Axes :
               /\ s'[b].v[c] =
                     FAdd(s[b].v[c], FMul(FMul(Half, dt), FAdd(s[b].a0[c], s[b].a[c])))
               /\ s'[b].a0[c] = s[b].a[c]]_vars

\* C5 (as stated): a second invocation on the same snapshot leaves the same
\* accelerations and adds the workers' buffers in the same order as the first,
\* whatever the interleaving of the workers.
C5_SameOrderEveryInterleaving ==
    (pc = "harness" /\ prev.valid) =>
        /\ \A b \in DOMAIN s : s[b].a = prev.acc[b]
        /\ recvOrder = prev.order

\* The buffers queued in q, in order.
Buffers(q) == [i \in 1..Len(q) |-> q[i].adiff]

\* C5 (amended): in exact arithmetic a second invocation on the same snapshot
\* leaves the same accelerations for every interleaving; the buffers are added
\* in the order in which the workers sent them.
C5_SameSumInSendOrder ==
    /\ (pc = "harness" /\ prev.valid) => \A b \in DOMAIN s : s[b].a = prev.acc[b]
    /\ pc \in {"acc_spawn", "acc_recv", "harness"} => recvOrder \o Buffers(chan) = sendOrder

\* The second invocation added the buffers in another order than the first,
\* and some acceleration is not zero.
C5_Witness ==
    /\ pc = "harness"
    /\ prev.valid
    /\ recvOrder # prev.order
    /\ \E b \in DOMAIN s : s[b].a # Vec3Zero

\* C6: nothing is written before the initial energy report, which is written
\* before the first Force Engine invocation and the first step; after it
\* there is exactly one diagnostic record for every completed step count that
\* is a multiple of 10, in order, and nothing else.
C6_OutputCadence ==
    /\ pc \in {"parse", "fatal"} => output = <<>>
    /\ pc \notin {"parse", "fatal"} =>
          /\ Len(output) = 1 + (k \div 10)
          /\ output[1].kind = "energies"
          /\ \A j \in 2..Len(output) :
                /\ output[j].kind = "diag"
                /\ output[j].t = FMul(F(10 * (j - 1)), dt)

\* The run is over: the initial report and the ten diagnostics of steps
\* 10, 20, ..., 100.
C6_Witness == pc = "done" /\ k = 100 /\ Len(output) = 11

\* C7: with zero bodies every energy term is 0 and no diagnostic divides by
\* zero: the relative drift of every record is a finite number.
C7_EmptyRunFinite ==
    (N = 0 /\ pc \notin {"parse", "fatal"}) =>
        \A j \in 1..Len(output) :
           /\ output[j].E = Vec3Zero
           /\ output[j].kind = "diag" => IsFinite(output[j].dE)

\* C8: for two bodies, m_0 * a_0 = -(m_1 * a_1) in every component.
C8_TwoBodySymmetry ==
    (pc = "harness" /\ N = 2) =>
        \A c \in Axes : FMul(s[0].m, s[0].a[c]) = FNeg(FMul(s[1].m, s[1].a[c]))

\* Two bodies of different masses with a non-zero acceleration.
C8_Witness ==
    /\ pc = "harness"
    /\ N = 2
    /\ s[0].m # s[1].m
    /\ s[0].a[1] # Zero

\* The fields of a line: its non-empty tokens.
Fields(line) == SelectSeq(line, LAMBDA tok : tok # "")
HasBadToken(line) == \E i \in 1..Len(line) : line[i] # "" /\ line[i] \notin NumericTokens

\* A non-empty line that is not eight numeric fields.
Malformed(line) == line # <<>> /\ (Len(Fields(line)) # 8 \/ HasBadToken(line))
\* A non-empty line with fewer than eight fields or a non-numeric token.
TooShortOrBad(line) == line # <<>> /\ (Len(Fields(line)) < 8 \/ HasBadToken(line))

NothingRan ==
    /\ pc \in {"parse", "fatal"}
    /\ output = <<>>
    /\ k = 0
    /\ \A w \in Workers : wstate[w] = "unspawned"

\* C9 (as stated): with a line of fewer or more than 8 fields, or with a
\* non-numeric token, nothing runs: no report, no invocation, no step.
C9_MalformedAborts ==
    (\E i \in 1..Len(input) : Malformed(input[i])) => NothingRan

\* C9 (amended): with a line of fewer than 8 fields or with a non-numeric
\* token nothing runs, and the run is in the fatal state once that line is
\* read; a run whose lines all have 8 or more numeric fields never aborts
\* (fields after the eighth are ignored).
C9_ShortOrBadAborts ==
    /\ (\E i \in 1..Len(input) : TooShortOrBad(input[i])) => NothingRan
    /\ \A i \in 1..Len(input) : (TooShortOrBad(input[i]) /\ lineno > i) => pc = "fatal"
    /\ (\A i \in 1..Len(input) : ~TooShortOrBad(input[i])) => pc # "fatal"

\* A run aborted at its second line, after a well-formed first one.
C9_Witness ==
    /\ pc = "fatal"
    /\ lineno = 3
    /\ N = 1
    /\ TooShortOrBad(input[2])
    /\ output = <<>>

\* C10: with a single body the acceleration is (0,0,0) at every point of the
\* run and the potential term of every energy report is 0.
C10_SingleBody ==
    (N = 1 /\ pc \notin {"parse", "fatal"}) =>
        /\ s[0].a = Vec3Zero
        /\ \A j \in 1..Len(output) : output[j].E[2] = Zero

\* A single body that has moved, after the report of step 10, in a run whose
\* one worker has the range [0, 1).
C10_Witness ==
    /\ N = 1
    /\ THREAD_COUNT = 1
    /\ k >= 10
    /\ Len(output) >= 2
    /\ s[0].r[1] # Zero
    /\ pc = "velocities"

\* The rank of a position of the main thread inside one turn of its cycle
\* loop -> acc_enter -> acc_spawn -> acc_recv -> velocities -> loop.
PcRank ==
    CASE pc = "parse" -> 0
      [] pc = "acc_spawn" -> 2
      [] pc = "acc_recv" -> 3
      [] pc \in {"loop", "velocities"} -> 4
      [] pc \in {"acc_enter", "done"} -> 5
      [] pc = "fatal" -> 6

\* How far the run has come: every step of every thread adds to it.
Progress ==
    (3 * THREAD_COUNT + 4) * (calls + k)
        + lineno + thread_index + Len(sendOrder) + iy + PcRank

\* C11: a step is begun only while t < tend and adds dt to t and 1 to k, so
\* that t is k * dt throughout and never exceeds tend; main returns only when
\* t < tend is false; and the run terminates: main, which outside acceleration
\* runs straight-line code, is inside acceleration never blocked for good (it
\* can take a step, or a worker is still running and will send), and every
\* step of every thread adds to a measure of progress that the bound on k
\* bounds.
C11_LoopRunsToTend ==
    /\ [][/\ (pc = "loop" /\ pc' = "acc_enter") => t[1] * tend[2] < tend[1] * t[2]
          /\ (k' # k \/ t' # t) =>
                /\ pc = "velocities"
                /\ k' = k + 1
                /\ t' = Frac(t[1] * dt[2] + dt[1] * t[2], t[2] * dt[2])
          /\ pc' = "done" => ~(t[1] * tend[2] < tend[1] * t[2])
          /\ Progress' > Progress]_vars
    /\ [](/\ t = Frac(k * dt[1], dt[2])
          /\ t[1] * tend[2] <= tend[1] * t[2]
          /\ calls <= k + 2
          /\ pc \in {"acc_enter", "acc_spawn", "acc_recv"} =>
                \/ ENABLED (AccelEnter \/ Spawn \/ Recv \/ AccelReturn)
                \/ \E w \in Workers : wstate[w] = "running")

\* The run has ended after its hundredth step, at t = tend.
C11_Witness == pc = "done" /\ k = 100 /\ t = tend

\* The values energies returned, in order, each with the number of moves
\* of the bodies before the call.
Reports == eframe.seen

\* C12: no step of an invocation of energies changes a field of a body;
\* the invocations between which the bodies were not moved return
\* identical total, kinetic and potential values, which are the values of
\* energies on the bodies as they are; and in each the total is the
\* kinetic plus the potential value.
C12_EnergyMonitorPure ==
    /\ [][(eframe.pc # "idle" \/ eframe'.pc # "idle") => s' = s]_vars
    /\ [](\A i \in DOMAIN Reports :
            /\ Reports[i].E[0] = FAdd(Reports[i].E[1], Reports[i].E[2])
            /\ \A j \in DOMAIN Reports :
                 Reports[i].at = Reports[j].at =>
                     \A c \in Axes : Reports[i].E[c] = Reports[j].E[c]
            /\ (eframe.pc = "idle" /\ Reports[i].at = eframe.moves) =>
                 Reports[i].E = energies(s))

\* energies has returned twice on the same two moving bodies, values that
\* are not zero, and a third time after the bodies were moved, another value.
C12_Witness ==
    /\ eframe.pc = "idle"
    /\ StarCount(s) = 2
    /\ Len(Reports) = 3
    /\ Reports[1].at = Reports[2].at
    /\ Reports[2].at # Reports[3].at
    /\ Reports[2].E[1] # Zero
    /\ Reports[2].E[2] # Zero
    /\ Reports[3].E # Reports[2].E

\* The closure of worker w has executed its send.
HasSent(w) == wstate[w] \in {"sent", "ended"}

\* The buffer worker w computes from its clone of the bodies.
BufferOf(w) == WorkerAdiff(sc[w], THREAD_COUNT, w)

\* seq holds exactly one buffer for every worker that has sent: the buffers
\* of seq are, with their multiplicities, the buffers of those workers.
OnePerSender(seq) ==
    /\ Len(seq) = Cardinality({ w \in Workers : HasSent(w) })
    /\ \A i \in DOMAIN seq :
          Cardinality({ j \in DOMAIN seq : seq[j] = seq[i] }) =
             Cardinality({ w \in Workers : HasSent(w) /\ BufferOf(w) = seq[i] })

\* acceleration has returned to main.
Returned == pc \in {"loop", "velocities", "done"}

\* C13: in every invocation the messages sent are exactly one for every
\* worker that has sent, on the channel of that invocation; what the Driver
\* has received and summed, followed by what is queued, is what was sent;
\* and when the invocation has returned, every one of its W workers has
\* sent, the Driver has received and summed exactly W messages, one for each
\* of them, and the channel is empty.
C13_OneMessagePerWorker ==
    /\ OnePerSender(sendOrder)
    /\ \A i \in DOMAIN chan : chan[i].call = calls
    /\ recvOrder \o Buffers(chan) = sendOrder
    /\ iy = Len(recvOrder)
    /\ Returned =>
          /\ calls >= 1
          /\ \A w \in Workers : HasSent(w)
          /\ Len(recvOrder) = THREAD_COUNT
          /\ iy = THREAD_COUNT
          /\ chan = <<>>

\* The second invocation of a run with the eight workers of the build has
\* returned to the loop.
C13_Witness ==
    /\ pc = "velocities"
    /\ calls = 2
    /\ THREAD_COUNT = 8
    /\ N = 2
    /\ Len(recvOrder) = 8

\* The Driver adds a received buffer into the accelerations.
SumWrite == pc = "acc_recv" /\ iy' = iy + 1

\* A worker ends its computation and sends.
WorkerStep == Len(sendOrder') > Len(sendOrder)

\* C14 (as stated): no step of a worker changes the Body Store, and the
\* Driver adds a buffer into the accelerations only when all workers of the
\* invocation have completed, never while one of them is still running.
C14_DriverWritesAfterAllWorkers ==
    [][/\ WorkerStep => s' = s
       /\ SumWrite => \A w \in Workers : HasSent(w)]_vars

\* C14 (amended): no step of a worker changes the Body Store; a worker's
\* snapshot is its own from spawn to send, whatever the Driver writes
\* meanwhile, and its message is computed from that snapshot alone; the
\* Driver adds a buffer into the accelerations only after the worker that
\* computed it has completed and no other Driver step of the receive loop
\* changes the Body Store.
C14_DriverWritesAfterSender ==
    [][/\ WorkerStep => s' = s
       /\ \A w \in Workers :
             (wstate[w] = "running" /\ wstate'[w] \in {"running", "sent"}) => sc'[w] = sc[w]
       /\ \A w \in Workers :
             (wstate[w] = "running" /\ wstate'[w] = "sent") =>
                 chan'[Len(chan')] = [call |-> calls, adiff |-> BufferOf(w)]
       /\ SumWrite =>
             /\ \E w \in Workers : HasSent(w) /\ BufferOf(w) = Head(chan).adiff
             /\ \A b \in DOMAIN s : \A c \in Axes :
                   s'[b].a[c] = FAdd(s[b].a[c], Head(chan).adiff[b][c])
       /\ (pc = "acc_recv" /\ ~SumWrite) => s' = s]_vars

\* The Driver has added the non-zero buffer of one worker while another
\* worker is still running.
C14_Witness ==
    /\ pc = "acc_recv"
    /\ iy >= 1
    /\ \E w \in Workers : wstate[w] = "running"
    /\ \E b \in DOMAIN s : s[b].a # Vec3Zero

\* C15: when an invocation has returned, and so when the next one begins,
\* every worker thread it spawned has terminated; no thread of an earlier
\* invocation is alive while a worker of the current one is.
C15_WorkersJoinedAtReturn ==
    /\ (pc = "harness" \/ (pc = "acc_enter" /\ calls >= 1)) =>
          \A w \in Workers : wstate[w] = "ended"
    /\ (\E w \in Workers : wstate[w] \in {"running", "sent"}) => detached = 0

\* What the Force Engine leaves in the bodies st: the accelerations zeroed,
\* then the buffer of every worker added.
RECURSIVE EngineSum(_, _, _)
EngineSum(st, W, w) ==
    IF w >= W THEN ResetAcceleration(st)
    ELSE AddBuffer(EngineSum(st, W, w + 1), WorkerAdiff(st, W, w))

EngineResult(st) == EngineSum(st, THREAD_COUNT, 0)

\* C16: the Force Engine is invoked once before the first step and once in
\* every step, after the position half-step and before the velocity step
\* (calls counts the invocations, k the completed steps); and where a step
\* starts and where the velocity step starts, the places of the bodies are
\* those every worker of the latest invocation was given, and every
\* acceleration is the Force Engine result for the bodies as they are.
C16_ForceEngineOncePerStep ==
    /\ pc = "parse" => calls = 0
    /\ pc = "acc_enter" => calls = IF ret = "loop" THEN 0 ELSE k + 1
    /\ pc \in {"acc_spawn", "acc_recv"} => calls = IF ret = "loop" THEN 1 ELSE k + 2
    /\ pc \in {"loop", "done"} => calls = k + 1
    /\ pc = "velocities" => calls = k + 2
    /\ ret = "loop" => k = 0
    /\ pc \in {"loop", "velocities"} =>
          /\ \A w \in Workers : \A b \in DOMAIN s :
                b \in DOMAIN sc[w] /\ sc[w][b].r = s[b].r /\ sc[w][b].m = s[b].m
          /\ \A b \in DOMAIN s : s[b].a = EngineResult(s)[b].a

\* The velocity step of the second step is about to use the result of the
\* third invocation, two bodies having moved.
C16_Witness ==
    /\ pc = "velocities"
    /\ k = 1
    /\ calls = 3
    /\ N = 2
    /\ THREAD_COUNT = 2
    /\ s[0].r[1] # Zero

\* C17: when the number of bodies is a multiple of the number of workers,
\* the bodies acceleration of main.rs has returned are, whatever the order
\* in which the workers sent, the bodies acceleration of main2.rs returns
\* when run on them.
C17_ParallelEqualsSequential ==
    (pc = "harness" /\ N % THREAD_COUNT = 0) => s = SeqAcceleration(s)

\* As many bodies as workers, more than one, and an acceleration that is
\* not zero.
C17_Witness ==
    /\ pc = "harness"
    /\ N = THREAD_COUNT
    /\ N >= 2
    /\ \E b \in DOMAIN s : s[b].a # Vec3Zero

====
